---- MODULE Spec2Model ----
(***************************************************************************)
(* Authentication and credential lifecycle of the personal-tracker         *)
(* backend: the user store, session tokens (JWT), password-reset tokens,   *)
(* the protect middleware and the global error handler.                    *)
(*                                                                         *)
(* Every request runs in a slot.  A handler is cut into steps at the       *)
(* points where it awaits the user store or the mailer; everything a       *)
(* handler does between two such points is one action.                     *)
(***************************************************************************)
EXTENDS Integers, Sequences, FiniteSets, TLC

\* ---------------------------------------------------------------- bounds
MaxUsers == 2       \* users ever created
MaxRaw == 2         \* random reset tokens ever generated
MaxSessions == 2    \* session tokens ever handed to a client
MaxShort == 1       \* clock advances of one millisecond
MaxLong == 1        \* clock advances of just under the reset-token lifetime
Epoch == 1500       \* Date.now() when the server starts, in ms
JWT_EXPIRES_IN == 600   \* configured session lifetime, in seconds
MaxInFlight == 1    \* requests that wait on the store or the mailer together
MaxExpenses == 3    \* expense documents ever stored
MaxAmount == 2      \* largest expenseAmount of a request body
MaxClients == 2     \* client IPs
MaxHits == 12       \* requests of one client that the limiter counts
MaxSteps == 7       \* clock advances between the limiter's requests

Slots == 1..2       \* the places a waiting request can occupy

\* ------------------------------------------------------- program constants
ResetTokenTTL == 10 * 60 * 1000
MinLength == 8
MaxLength == 32
BcryptRounds == 12

\* The clock advances by one millisecond or by just under the token lifetime,
\* so that both sides of every expiry comparison are reached.
LongTick == ResetTokenTTL - 1
TickSizes == {1, LongTick}
ShortTicks(t) == (t - Epoch) % LongTick
LongTicks(t) == (t - Epoch) \div LongTick

\* rateLimit({ windowMs, max })
windowMs == 15 * 50 * 1000
max == 10
LimiterStep == windowMs \div 5
IPs == 1..MaxClients
\* A client the store has no entry for.
NoClient == [totalHits |-> 0, resetTime |-> 0]

\* ------------------------------------------------------------ input values
Undefined == "undefined"
Emails == {"a@x.io", "B@x.io"}
\* password and confirmation as the body of a signup and of a reset supplies
\* them: a valid pair, a mismatch, a pair that is too short
SignupPairs ==
  {<<"password1", "password1">>, <<"password1", "password2">>, <<"short", "short">>}
ResetPairs ==
  {<<"password2", "password2">>, <<"password2", "password1">>, <<"short", "short">>}
Modes == {"development", "production", "unset"}
\* a role field in the body of a signup: none, or 'admin'
BodyRoles == {Undefined, "admin"}

toLowerCase(e) == IF e = "B@x.io" THEN "b@x.io" ELSE e

\* ------------------------------------------------------------------ hashes
NoHash == <<>>
bcryptHash(p) == <<"bcrypt", BcryptRounds, p>>
bcryptCompare(candidate, hash) == hash = bcryptHash(candidate)
\* Variant: the digest is taken of a fixed string, not of the token.
sha256_literal(raw) == <<"sha256", "resetToken">>
sha256(raw) == <<"sha256", raw>>

\* ------------------------------------------------------------ user schema
NoDate == -1
SchemaPaths ==
  {"email", "password", "confirmPassword", "passwordChangedAt", "role",
   "passwordResetToken", "passwordResetExpires"}

NoDoc ==
  [email |-> Undefined, password |-> NoHash, confirmPassword |-> Undefined,
   passwordChangedAt |-> NoDate, role |-> "user",
   passwordResetToken |-> NoHash, passwordResetExpires |-> NoDate]

\* An in-memory document: its _id, the paths modified since it was loaded and
\* their new values (no handler reads a loaded value after its lookup, so the
\* other paths are not kept).  Assigning a property the schema does not
\* declare leaves the document that save() persists as it was.
NoMem == [id |-> 0, doc |-> NoDoc, modified |-> {}]
Load(id) == [id |-> id, doc |-> NoDoc, modified |-> {}]
Assign(m, path, v) ==
  IF path \in SchemaPaths
    THEN [m EXCEPT !.doc = [@ EXCEPT ![path] = v], !.modified = @ \cup {path}]
    ELSE m

\* Schema validators of the paths a save touches.
ValidLength(p) == p # Undefined /\ Len(p) >= MinLength /\ Len(p) <= MaxLength
\* Variant: the confirmation is not compared with the password.
ValidPasswordPair_lengthOnly(pw, cpw) == ValidLength(pw) /\ ValidLength(cpw)
ValidPasswordPair(pw, cpw) == ValidLength(pw) /\ ValidLength(cpw) /\ pw = cpw

\* Variant: the confirmation is dropped, the password is stored as given.
preSave_noHash(m) ==
  IF "password" \in m.modified
    THEN [m EXCEPT !.doc = [@ EXCEPT !.confirmPassword = Undefined],
                   !.modified = @ \cup {"confirmPassword"}]
    ELSE m

\* Variant: the hook does not test isModified('password'); an unmodified
\* password is the loaded hash, written "$2b$" here, and is hashed again.
preSave_always(m) ==
  [m EXCEPT !.doc = [@ EXCEPT !.password =
                                bcryptHash(IF "password" \in m.modified
                                             THEN m.doc.password ELSE "$2b$"),
                              !.confirmPassword = Undefined],
            !.modified = @ \cup {"password", "confirmPassword"}]

\* pre('save'): hash the password when it was modified, drop the confirmation.
preSave(m) ==
  IF "password" \in m.modified
    THEN [m EXCEPT !.doc = [@ EXCEPT !.password = bcryptHash(m.doc.password),
                                     !.confirmPassword = Undefined],
                   !.modified = @ \cup {"confirmPassword"}]
    ELSE m

\* A query result: the paths declared select: false are left out.
Selected(d) ==
  [d EXCEPT !.confirmPassword = Undefined, !.passwordResetToken = NoHash,
            !.passwordResetExpires = NoDate]

\* save() writes the modified paths onto the stored document.
Persist(stored, m) ==
  [p \in DOMAIN stored |-> IF p \in m.modified THEN m.doc[p] ELSE stored[p]]

correctPassword(candidatePassword, userPassword) ==
  bcryptCompare(candidatePassword, userPassword)

\* Variant: the change time is truncated to whole seconds before comparing.
changePasswordAfter_wholeSeconds(d, jwtTimeStamp) ==
  IF d.passwordChangedAt # NoDate
    THEN jwtTimeStamp < d.passwordChangedAt \div 1000
    ELSE FALSE

\* jwtTimeStamp is in whole seconds, passwordChangedAt in milliseconds:
\* jwtTimeStamp < passwordChangedAt / 1000.
changePasswordAfter(d, jwtTimeStamp) ==
  IF d.passwordChangedAt # NoDate
    THEN jwtTimeStamp * 1000 < d.passwordChangedAt
    ELSE FALSE

isJWTExpired(jwtExpires, t) == t >= jwtExpires * 1000

\* Variant: the token itself is put on the document, not its digest.
createResetToken_plain(m, raw, t) ==
  Assign(Assign(m, "passwordResetToken", <<"plain", raw>>),
         "passwordResetExpires", t + ResetTokenTTL)

\* Variant: the expiry is not set.
createResetToken_noExpiry(m, raw, t) ==
  Assign(m, "passwordResetToken", sha256(raw))

\* createResetToken: the hash and the expiry land on the reset paths.
createResetToken(m, raw, t) ==
  Assign(Assign(m, "passwordResetToken", sha256(raw)),
         "passwordResetExpires", t + ResetTokenTTL)

\* ---------------------------------------------------------- session tokens
\* at is the millisecond of issue; it is not part of the token.
NoToken == [id |-> 0, iat |-> 0, exp |-> 0, sig |-> "none", at |-> 0]
signToken(id, t) ==
  [id |-> id, iat |-> t \div 1000, exp |-> (t \div 1000) + JWT_EXPIRES_IN,
   sig |-> "secret", at |-> t]

\* Variant: the signature is checked, the expiry is not.
jwtVerify_noExpiry(tok, t) ==
  IF tok.sig # "secret" THEN "JsonWebTokenError" ELSE "ok"

\* jwt.verify: the signature first, then the expiry in whole seconds.
jwtVerify(tok, t) ==
  IF tok.sig # "secret" THEN "JsonWebTokenError"
  ELSE IF (t \div 1000) >= tok.exp THEN "TokenExpiredError"
  ELSE "ok"

\* ------------------------------------------------------------------ errors
AppError(message, statusCode) ==
  [name |-> "Error", statusCode |-> statusCode, code |-> 0, message |-> message]
Thrown(name, message) ==
  [name |-> name, statusCode |-> 0, code |-> 0, message |-> message]
DuplicateKey ==
  [name |-> "MongoServerError", statusCode |-> 0, code |-> 11000,
   message |-> "E11000 duplicate key error"]
ValidationError == Thrown("ValidationError", "User validation failed")

\* message.includes('Validation failed') is case sensitive.
IncludesValidationFailed(message) == message = "Validation failed"

\* A response body: status, message, token and what it carries under data:
\* a user document (noUser when the body has none), a list of user documents,
\* a list of expense documents (one element for a single expense) or the
\* groups of an aggregation (a set: $group promises no order).
noUser == [NoDoc EXCEPT !.role = Undefined]
NoResp ==
  [status |-> 0, message |-> "", token |-> NoToken, user |-> noUser,
   users |-> <<>>, expenses |-> <<>>, groups |-> {}]
Json(status, message, token) ==
  [NoResp EXCEPT !.status = status, !.message = message, !.token = token]

handleValidationError(err) == AppError("Invalid data input.", 400)
handleDuplicateKeyError(err) == AppError("Duplicate field values", 400)
handleJsonWebTokenError == AppError("Invalid token. Please log in again!", 401)

sendDevError(err) == Json(err.statusCode, err.message, NoToken)
SendProdError(err) == Json(err.statusCode, err.message, NoToken)

globalErrorHandler(err0, env) ==
  LET err == [err0 EXCEPT !.statusCode = IF @ # 0 THEN @ ELSE 500]
      e1 == IF IncludesValidationFailed(err.message)
              THEN handleValidationError(err) ELSE err
      e2 == IF e1.code = 11000 THEN handleDuplicateKeyError(e1) ELSE e1
      e3 == IF e2.name = "JsonWebTokenError" THEN handleJsonWebTokenError ELSE e2
  IN  IF env = "development" THEN sendDevError(err)
      ELSE IF env = "production" THEN SendProdError(e3)
      ELSE NoResp

\* The values of NODE_ENV under which globalErrorHandler writes a response.
ServingModes == Modes \ {"unset"}

\* ------------------------------------------------------------------- state
VARIABLES
  now,        \* Date.now()
  users,      \* the user collection: _id -> stored document
  present,    \* the _ids that currently have a document
  nextId,     \* the next _id User.create hands out
  rawIssued,  \* the random tokens generated so far: raw -> [uid, t, flow]
  sessions,   \* the session tokens handed to clients
  req,        \* the request in flight in each slot
  last,       \* the middleware or handler run that has just ended, if any
  consumed,   \* raw tokens with which a reset has replaced a password
  lastSaved,  \* per user, the raw token whose hash was persisted last
  expenses,   \* the expense collection: _id -> stored document, in _id order
  console,    \* the raw tokens written to the console, each with the values
              \* of NODE_ENV under which its line is written
  limiter,    \* the request limiter's store: per client IP, the hits counted
              \* and the time at which the count starts anew
  window      \* history: per client IP, the time of the first request of the
              \* current quarter of an hour and the requests since

vars == <<now, users, present, nextId, rawIssued, sessions, req, last,
          consumed, lastSaved, expenses, console, limiter, window>>

UserIds == 1..MaxUsers

NoPair == <<Undefined, Undefined>>

\* A request in flight: the handler, where it waits, its document and the raw
\* token it made or was given.
Idle == [op |-> "idle", pc |-> "idle", mem |-> NoMem, raw |-> 0]

\* The record of a finished run: what came in (role: the role the body of a
\* signup named; exp: the expense _id of the URL; userId: the userId the body
\* of a createExpense named; ip: the client the limiter counted), what was
\* decided (called: protect called next(); permitted:
\* restrictTo called next()), the errors handed to next (in order) and the
\* response written.
NoRun ==
  [op |-> "none", uid |-> 0, raw |-> 0, pair |-> NoPair, role |-> Undefined,
   scheme |-> "none",
   tok |-> NoToken, mail |-> "none", verified |-> FALSE,
   looked |-> FALSE, called |-> FALSE, permitted |-> FALSE,
   exp |-> 0, userId |-> 0, ip |-> 0,
   nexts |-> <<>>, resp |-> NoResp]

\* The server takes its next step once the outcome of the run that has just
\* ended has left it.
Quiet == last = NoRun

\* A new request takes the lowest slot that is not in use.
Free(s) ==
  /\ Quiet
  /\ req[s].pc = "idle"
  /\ \A s2 \in Slots : s2 < s => req[s2].pc # "idle"

Waiting(s, pc) == Quiet /\ req[s].pc = pc

\* next(err)
Fail(run, err) == [run EXCEPT !.nexts = Append(@, err)]

\* What the client receives under NODE_ENV = env: the response the handler
\* wrote, or else what globalErrorHandler makes of the first error handed to
\* next.
Answer(run, env) ==
  IF run.resp # NoResp THEN run.resp
  ELSE IF run.nexts # <<>> THEN globalErrorHandler(run.nexts[1], env)
  ELSE NoResp

Respond(run, status, message, token) ==
  [run EXCEPT !.resp = Json(status, message, token)]

\* catchAsync: a rejection of the handler is passed to next.
catchAsync(run, err) == Fail(run, err)

\* valdidateResourceExists calls next(error) for a missing value and returns
\* to its caller, which goes on.
valdidateResourceExists(run, missing, type, msg) ==
  IF ~missing THEN run
  ELSE Fail(run, CASE type = "id" -> AppError("User ID is required", 400)
                   [] type = "user" -> AppError("User not found!", 404)
                   [] type = "expense" -> AppError("No expense found!", 404)
                   [] OTHER -> AppError(msg, 400))

\* Variant: the filter is dropped, every document matches.
FindByEmail_any(e) == present

\* find({email: e})
FindByEmail(e) == {u \in present : users[u].email = e}

\* Variant: the email path has no unique index.
UniqueIndexHit_none(e) == FALSE

\* unique: true on email: an insert of an email that a stored document
\* already has is refused by the index.
UniqueIndexHit(e) == \E u \in present : users[u].email = e

\* The document findOne returns: the first match, or none (0).
Found(found) == IF found = {} THEN 0 ELSE CHOOSE u \in found : \A v \in found : u <= v

Init ==
  /\ now = Epoch
  /\ users = [u \in UserIds |-> NoDoc]
  /\ present = {}
  /\ nextId = 1
  /\ rawIssued = <<>>
  /\ sessions = {}
  /\ req = [s \in Slots |-> Idle]
  /\ last = NoRun
  /\ consumed = {}
  /\ lastSaved = [u \in UserIds |-> 0]
  /\ expenses = <<>>
  /\ console = {}
  /\ limiter = [ip \in IPs |-> NoClient]
  /\ window = [ip \in IPs |-> [first |-> 0, n |-> 0]]

Tick(d) ==
  /\ Quiet
  /\ d = 1 => ShortTicks(now) < MaxShort
  /\ d = LongTick => LongTicks(now) < MaxLong
  /\ now' = now + d
  /\ last' = NoRun
  /\ UNCHANGED <<users, present, nextId, rawIssued, sessions, req,
                 consumed, lastSaved>>
  /\ UNCHANGED <<expenses, console, limiter, window>>

\* ------------------------------------------------------------------ signup
\* Variant: the user is sent as it was passed.
createSendToken_noStrip(run, token, statusCode, user) ==
  IF user # noUser
    THEN [run EXCEPT !.resp = [Json(statusCode, "success", token) EXCEPT !.user = user]]
    ELSE catchAsync(run, Thrown("TypeError", "Cannot set properties of undefined"))

\* createSendToken strips password and confirmPassword from the user it is
\* given, sets the cookie and sends the token with the user.  user is the
\* document the caller passes, noUser when it passes none.
createSendToken(run, token, statusCode, user) ==
  IF user # noUser
    THEN [run EXCEPT !.resp =
            [Json(statusCode, "success", token) EXCEPT
               !.user = [user EXCEPT !.password = NoHash,
                                     !.confirmPassword = Undefined]]]
    ELSE catchAsync(run, Thrown("TypeError", "Cannot set properties of undefined"))

\* Variant: the role of the body goes to User.create as well.
signupFields_wholeBody(email, pair, role) ==
  [NoDoc EXCEPT !.email = toLowerCase(email), !.password = pair[1],
                !.confirmPassword = pair[2],
                !.role = IF role = Undefined THEN "user" ELSE role]

\* What signup hands to User.create: email (lower-cased), password and
\* confirmPassword of the body, and no other field of it.
signupFields(email, pair, role) ==
  [NoDoc EXCEPT !.email = toLowerCase(email), !.password = pair[1],
                !.confirmPassword = pair[2]]

signup(s, email, pair) ==
  /\ Free(s)
  /\ nextId <= MaxUsers
  /\ Cardinality(sessions) < MaxSessions
  /\ \E role \in BodyRoles :
     LET run == [NoRun EXCEPT !.op = "signup", !.pair = pair, !.role = role]
         lower == toLowerCase(email)
         token == signToken(nextId, now)
         created == preSave([id |-> nextId,
                             doc |-> signupFields(email, pair, role),
                             modified |-> {"email", "password", "confirmPassword"}])
     IN  IF email = Undefined
           THEN /\ last' = catchAsync(run, Thrown("TypeError", "toLowerCase of undefined"))
                /\ UNCHANGED <<users, present, nextId, sessions>>
         ELSE IF ~ValidPasswordPair(pair[1], pair[2])
           THEN /\ last' = catchAsync(run, ValidationError)
                /\ UNCHANGED <<users, present, nextId, sessions>>
         ELSE IF UniqueIndexHit(lower)
           THEN /\ last' = catchAsync(run, DuplicateKey)
                /\ UNCHANGED <<users, present, nextId, sessions>>
         ELSE /\ users' = [users EXCEPT ![nextId] = created.doc]
              /\ present' = present \cup {nextId}
              /\ nextId' = nextId + 1
              /\ sessions' = sessions \cup {token}
              /\ last' = createSendToken([run EXCEPT !.uid = nextId], token, 201,
                                          created.doc)
  /\ UNCHANGED <<now, rawIssued, req, consumed, lastSaved>>
  /\ UNCHANGED <<expenses, console, limiter, window>>

\* ------------------------------------------------------------------- login
\* Variant: an unknown email is answered differently from a wrong password.
login_notFound(s, email, password) ==
  /\ Free(s)
  /\ Cardinality(sessions) < MaxSessions
  /\ LET run == [NoRun EXCEPT !.op = "login"]
         found == FindByEmail(email)
     IN  IF email = Undefined \/ password = Undefined
           THEN /\ last' = Fail(run, AppError("Please provide email and password!", 400))
                /\ UNCHANGED req
         ELSE IF found = {}
           THEN /\ last' = Fail(run, AppError("There is no user with that email address.", 404))
                /\ UNCHANGED req
         ELSE IF \A u \in found : ~correctPassword(password, users[u].password)
           THEN /\ last' = Fail([run EXCEPT !.uid = Found(found)],
                                AppError("Incorrect email or password", 401))
                /\ UNCHANGED req
         ELSE /\ \E u \in found :
                   req' = [req EXCEPT ![s] =
                             [Idle EXCEPT !.op = "login", !.pc = "login_sign",
                                          !.mem = [Load(u) EXCEPT
                                                     !.doc = [Selected(users[u]) EXCEPT
                                                                !.password = users[u].password]]]]
              /\ last' = NoRun
  /\ UNCHANGED <<now, users, present, nextId, rawIssued, sessions,
                 consumed, lastSaved>>
  /\ UNCHANGED <<expenses, console, limiter, window>>

login(s, email, password) ==
  /\ Free(s)
  /\ Cardinality(sessions) < MaxSessions
  /\ LET run == [NoRun EXCEPT !.op = "login"]
         found == FindByEmail(email)
     IN  IF email = Undefined \/ password = Undefined
           THEN /\ last' = Fail(run, AppError("Please provide email and password!", 400))
                /\ UNCHANGED req
         ELSE IF found = {} \/ \A u \in found : ~correctPassword(password, users[u].password)
           THEN /\ last' = Fail([run EXCEPT !.uid = Found(found)],
                                AppError("Incorrect email or password", 401))
                /\ UNCHANGED req
         ELSE /\ \E u \in found :
                   req' = [req EXCEPT ![s] =
                             [Idle EXCEPT !.op = "login", !.pc = "login_sign",
                                          !.mem = [Load(u) EXCEPT
                                                     !.doc = [Selected(users[u]) EXCEPT
                                                                !.password = users[u].password]]]]
              /\ last' = NoRun
  /\ UNCHANGED <<now, users, present, nextId, rawIssued, sessions,
                 consumed, lastSaved>>
  /\ UNCHANGED <<expenses, console, limiter, window>>

loginSign(s) ==
  /\ Waiting(s, "login_sign")
  /\ LET token == signToken(req[s].mem.id, now)
         run == [NoRun EXCEPT !.op = "login", !.uid = req[s].mem.id]
     IN  /\ sessions' = sessions \cup {token}
         /\ last' = createSendToken(run, token, 200, req[s].mem.doc)
         /\ req' = [req EXCEPT ![s] = Idle]
  /\ UNCHANGED <<now, users, present, nextId, rawIssued, consumed, lastSaved>>
  /\ UNCHANGED <<expenses, console, limiter, window>>

\* ----------------------------------------------------------------- protect
\* Variant: any Authorization header passes.
HasBearer_anyScheme(scheme) == scheme # "none"
HasBearer(scheme) == scheme = "Bearer"

\* protect up to the point where it either hands an error to next or sets
\* req.user and calls next().
protectRun(scheme, tok) ==
  LET run0 == [NoRun EXCEPT !.op = "protect", !.scheme = scheme, !.tok = tok]
      run1 == [run0 EXCEPT !.verified = TRUE]
      run2 == [run1 EXCEPT !.looked = TRUE]
      decoded == jwtVerify(tok, now)
  IN  IF ~HasBearer(scheme)
        THEN Fail(run0, AppError("You are not logged in. Please log in to get access", 401))
      ELSE IF decoded # "ok"
        THEN catchAsync(run1, Thrown(decoded, "jwt"))
      ELSE IF tok.id \notin present
        THEN catchAsync(valdidateResourceExists(run2, TRUE, "user", "Invalid data"),
                        Thrown("TypeError", "changePasswordAfter of null"))
      ELSE IF changePasswordAfter(users[tok.id], tok.iat) /\ ~isJWTExpired(tok.exp, now)
        THEN Fail([run2 EXCEPT !.uid = tok.id],
                  AppError("Password changed after token issued! Please log in again.", 401))
      ELSE [run2 EXCEPT !.uid = tok.id, !.called = TRUE]

Forged == [id |-> 1, iat |-> Epoch \div 1000, exp |-> (Epoch \div 1000) + JWT_EXPIRES_IN,
           sig |-> "forged", at |-> Epoch]

Headers ==
  ({"none", "Basic"} \X {NoToken}) \cup ({"Bearer"} \X (sessions \cup {Forged, NoToken}))

\* emailVerifyTokenSend up to its first save: the token comes from
\* createResetToken; emailVerificationToken and emailVerificationExpires are
\* assigned on the document as well.
emailVerifyTokenSend(uid, raw) ==
  [Idle EXCEPT !.op = "emailVerifyTokenSend", !.pc = "ev_save", !.raw = raw,
               !.mem = Assign(Assign(createResetToken(Load(uid), raw, now),
                                     "emailVerificationToken", sha256(raw)),
                              "emailVerificationExpires", now + ResetTokenTTL)]

\* A request to a route behind protect.  On the expense routes the handlers
\* that follow are not part of this model; on the verification route
\* emailVerifyTokenSend runs on with req.user.
protect(s, scheme, tok, route) ==
  /\ Free(s)
  /\ route = "emailVerify" => Len(rawIssued) < MaxRaw
  /\ last' = protectRun(scheme, tok)
  /\ IF last'.called /\ route = "emailVerify"
       THEN /\ rawIssued' = Append(rawIssued, [uid |-> tok.id, t |-> now, flow |-> "verify"])
            /\ req' = [req EXCEPT ![s] = emailVerifyTokenSend(tok.id, Len(rawIssued) + 1)]
       ELSE UNCHANGED <<rawIssued, req>>
  /\ UNCHANGED <<now, users, present, nextId, sessions, consumed, lastSaved>>
  /\ UNCHANGED <<expenses, console, limiter, window>>

\* save() of the request's document: the write of the modified paths.
Saved(s) == [users EXCEPT ![req[s].mem.id] = Persist(@, preSave(req[s].mem))]
DocumentNotFound == Thrown("DocumentNotFoundError", "No document found")

\* The values of NODE_ENV under which a handler writes the raw token it has
\* made to the console: forgotPassword logs it unconditionally,
\* emailVerifyTokenSend in development.
LogModes(runOp) == IF runOp = "forgotPassword" THEN Modes ELSE {"development"}

\* The save of the token, and after it the console.log of the raw token
\* that precedes sendEmail.
SaveToken(s, runOp, nextPc) ==
  /\ IF req[s].mem.id \in present
       THEN /\ users' = Saved(s)
            /\ lastSaved' = [lastSaved EXCEPT ![req[s].mem.id] = req[s].raw]
            /\ console' = console \cup {[raw |-> req[s].raw, modes |-> LogModes(runOp)]}
            /\ req' = [req EXCEPT ![s].pc = nextPc]
            /\ last' = NoRun
       ELSE /\ last' = catchAsync([NoRun EXCEPT !.op = runOp, !.uid = req[s].mem.id,
                                                !.raw = req[s].raw],
                                  DocumentNotFound)
            /\ req' = [req EXCEPT ![s] = Idle]
            /\ UNCHANGED <<users, lastSaved, console>>
  /\ UNCHANGED <<now, present, nextId, rawIssued, sessions, consumed>>
  /\ UNCHANGED <<expenses, limiter, window>>

emailVerifySave(s) ==
  /\ Waiting(s, "ev_save")
  /\ SaveToken(s, "emailVerifyTokenSend", "ev_mail")

\* sendEmail resolves or rejects.  The catch block assigns the two
\* verification properties, saves, and then reads the unbound name error.
emailVerifyMail(s, delivered) ==
  /\ Waiting(s, "ev_mail")
  /\ LET run == [NoRun EXCEPT !.op = "emailVerifyTokenSend", !.uid = req[s].mem.id,
                              !.raw = req[s].raw,
                              !.mail = IF delivered THEN "sent" ELSE "failed"]
         cleared == Assign(Assign([req[s].mem EXCEPT !.modified = {}],
                                  "emailVerificationExpires", NoDate),
                           "emailVerificationToken", NoHash)
     IN  IF delivered
           THEN /\ last' = Respond(run, 200, "Verification email sent successfully", NoToken)
                /\ UNCHANGED users
           ELSE /\ users' = IF req[s].mem.id \in present /\ preSave(cleared).modified # {}
                              THEN [users EXCEPT ![req[s].mem.id] = Persist(@, preSave(cleared))]
                              ELSE users
                /\ last' = catchAsync(run, Thrown("ReferenceError", "error is not defined"))
  /\ req' = [req EXCEPT ![s] = Idle]
  /\ UNCHANGED <<now, present, nextId, rawIssued, sessions, consumed, lastSaved>>
  /\ UNCHANGED <<expenses, console, limiter, window>>

\* --------------------------------------------------------- emailTokenVerify
\* What a query reads at a path: stored documents hold schema paths only.
HasStored(d, path, v) == path \in SchemaPaths /\ d[path] = v
StoredAfter(d, path, t) == path \in SchemaPaths /\ d[path] > t

\* findOne({emailVerificationToken: hashed, emailVerificationExpires: {$gt: now}})
VerifyLookup(hashedToken, t) ==
  {u \in present : /\ HasStored(users[u], "emailVerificationToken", hashedToken)
                   /\ StoredAfter(users[u], "emailVerificationExpires", t)}

\* emailTokenVerify: the lookup, and for a user it finds the three
\* assignments, the save and the response.
emailTokenVerify(s, raw) ==
  /\ Free(s)
  /\ LET run == [NoRun EXCEPT !.op = "emailTokenVerify", !.raw = raw]
         found == VerifyLookup(sha256(raw), now)
         u == Found(found)
         verified == Assign(Assign(Assign(Load(u), "isVerified", TRUE),
                                   "emailVerificationExpires", NoDate),
                            "emailVerificationToken", NoHash)
     IN  IF found = {}
           THEN /\ last' = Fail(run, AppError("Token is invalid or has expired", 400))
                /\ UNCHANGED users
           ELSE /\ users' = [users EXCEPT ![u] = Persist(@, preSave(verified))]
                /\ last' = Respond([run EXCEPT !.uid = u], 200,
                                   "Email verified successfully", NoToken)
  /\ UNCHANGED <<now, present, nextId, rawIssued, sessions, req, consumed, lastSaved>>
  /\ UNCHANGED <<expenses, console, limiter, window>>

\* ---------------------------------------------------------- forgotPassword
forgotPassword(s, email) ==
  /\ Free(s)
  /\ Len(rawIssued) < MaxRaw
  /\ LET run == [NoRun EXCEPT !.op = "forgotPassword"]
         found == IF email = Undefined THEN {} ELSE FindByEmail(toLowerCase(email))
         raw == Len(rawIssued) + 1
     IN  IF email = Undefined
           THEN /\ last' = catchAsync(
                             valdidateResourceExists(run, TRUE, "email", "Email is required"),
                             Thrown("TypeError", "toLowerCase of undefined"))
                /\ UNCHANGED <<req, rawIssued>>
         ELSE IF found = {}
           THEN /\ last' = Fail(run, AppError("There is no user with that email address.", 404))
                /\ UNCHANGED <<req, rawIssued>>
         ELSE /\ \E u \in found :
                   /\ req' = [req EXCEPT ![s] =
                               [Idle EXCEPT !.op = "forgotPassword", !.pc = "fp_save",
                                            !.raw = raw,
                                            !.mem = createResetToken(Load(u), raw, now)]]
                   /\ rawIssued' = Append(rawIssued, [uid |-> u, t |-> now, flow |-> "reset"])
              /\ last' = NoRun
  /\ UNCHANGED <<now, users, present, nextId, sessions, consumed, lastSaved>>
  /\ UNCHANGED <<expenses, console, limiter, window>>

forgotPasswordSave(s) ==
  /\ Waiting(s, "fp_save")
  /\ SaveToken(s, "forgotPassword", "fp_mail")

\* sendEmail resolves or rejects.  The catch block assigns resetPasswordToken
\* and resetPasswordExpires, saves, and hands a 500 to next.
forgotPasswordMail(s, delivered) ==
  /\ Waiting(s, "fp_mail")
  /\ LET run == [NoRun EXCEPT !.op = "forgotPassword", !.uid = req[s].mem.id,
                              !.raw = req[s].raw,
                              !.mail = IF delivered THEN "sent" ELSE "failed"]
         cleared == Assign(Assign([req[s].mem EXCEPT !.modified = {}],
                                  "resetPasswordToken", NoHash),
                           "resetPasswordExpires", NoDate)
     IN  IF delivered
           THEN /\ last' = Respond(run, 200, "Token sent to email!", NoToken)
                /\ UNCHANGED users
           ELSE /\ users' = IF req[s].mem.id \in present /\ preSave(cleared).modified # {}
                              THEN [users EXCEPT ![req[s].mem.id] = Persist(@, preSave(cleared))]
                              ELSE users
                /\ last' = Fail(run, AppError("There was an error sending the email. Try again later!", 500))
  /\ req' = [req EXCEPT ![s] = Idle]
  /\ UNCHANGED <<now, present, nextId, rawIssued, sessions, consumed, lastSaved>>
  /\ UNCHANGED <<expenses, console, limiter, window>>

\* ----------------------------------------------------------- resetPassword
\* Variant: $gte in place of $gt.
ResetLookup_gte(hashedToken, t) ==
  {u \in present : /\ users[u].passwordResetToken = hashedToken
                   /\ users[u].passwordResetExpires >= t}

\* Variant: the lookup tests the expiry only.
ResetLookup_anyToken(hashedToken, t) ==
  {u \in present : users[u].passwordResetExpires > t}

\* findOne({passwordResetToken: hashed, passwordResetExpires: {$gt: now}})
ResetLookup(hashedToken, t) ==
  {u \in present : /\ users[u].passwordResetToken = hashedToken
                   /\ users[u].passwordResetExpires > t}

resetPassword(s, raw, pair) ==
  /\ Free(s)
  /\ LET run == [NoRun EXCEPT !.op = "resetPassword", !.raw = raw]
         found == ResetLookup(sha256(raw), now)
     IN  IF found = {}
           THEN /\ last' = Fail(run, AppError("Token is invalid or has expired", 400))
                /\ UNCHANGED req
           ELSE /\ \E u \in found :
                     req' = [req EXCEPT ![s] =
                       [Idle EXCEPT
                          !.op = "resetPassword", !.pc = "rp_save", !.raw = raw,
                          !.mem = Assign(Assign(Assign(Assign(Assign(
                                    Load(u),
                                    "password", pair[1]),
                                    "confirmPassword", pair[2]),
                                    "resetPasswordToken", NoHash),
                                    "resetPasswordExpires", NoDate),
                                    "passwordChangedAt", now)]]
                /\ last' = NoRun
  /\ UNCHANGED <<now, users, present, nextId, rawIssued, sessions,
                 consumed, lastSaved>>
  /\ UNCHANGED <<expenses, console, limiter, window>>

\* user.save() with validation, then signToken and createSendToken(res,
\* jwtToken, 200), which is given no user.
resetPasswordSave(s) ==
  /\ Waiting(s, "rp_save")
  /\ LET run == [NoRun EXCEPT !.op = "resetPassword", !.uid = req[s].mem.id,
                              !.raw = req[s].raw,
                              !.pair = <<req[s].mem.doc.password,
                                         req[s].mem.doc.confirmPassword>>]
         jwtToken == signToken(req[s].mem.id, now)
     IN  IF ~ValidPasswordPair(req[s].mem.doc.password, req[s].mem.doc.confirmPassword)
           THEN /\ last' = catchAsync(run, ValidationError)
                /\ UNCHANGED <<users, consumed>>
         ELSE IF req[s].mem.id \notin present
           THEN /\ last' = catchAsync(run, DocumentNotFound)
                /\ UNCHANGED <<users, consumed>>
         ELSE /\ users' = Saved(s)
              /\ consumed' = consumed \cup {req[s].raw}
              /\ last' = createSendToken(run, jwtToken, 200, noUser)
  /\ req' = [req EXCEPT ![s] = Idle]
  /\ UNCHANGED <<now, present, nextId, rawIssued, sessions, lastSaved>>
  /\ UNCHANGED <<expenses, console, limiter, window>>

\* ------------------------------------------------------------------ logout
\* The cookie is overwritten; the store is not touched.
logout(s) ==
  /\ Free(s)
  /\ last' = Respond([NoRun EXCEPT !.op = "logout"], 200,
                     "Logged Out Successfully", NoToken)
  /\ UNCHANGED <<now, users, present, nextId, rawIssued, sessions, req,
                 consumed, lastSaved, expenses, console, limiter, window>>

\* -------------------------------------------------------------- deleteUser
\* The handler's effect, User.findByIdAndDelete and 204.  The user router of
\* part_002 mounts it bare; behind restrictTo alone (part_001) it is not
\* reached, see userByIdRoute.
deleteUser(u) ==
  /\ Quiet
  /\ u \in present
  /\ present' = present \ {u}
  /\ users' = [users EXCEPT ![u] = NoDoc]
  /\ last' = Respond([NoRun EXCEPT !.op = "deleteUser", !.uid = u],
                     204, "", NoToken)
  /\ UNCHANGED <<now, nextId, rawIssued, sessions, req, consumed, lastSaved>>
  /\ UNCHANGED <<expenses, console, limiter, window>>

\* ------------------------------------------------------------- seed script
\* data/seedData.js: three users, the second an admin, and their expenses
\* (one expense of each user is kept here).
SeedIds == {u \in UserIds : u <= 3}
SeedEmail(u) ==
  IF u = 1 THEN "john.doe@example.com"
  ELSE IF u = 2 THEN "jane.smith@example.com"
  ELSE "mike.wilson@example.com"
SeedPassword(u) ==
  IF u = 1 THEN "password12345"
  ELSE IF u = 2 THEN "securepass12345"
  ELSE "mikepass12345"
SeedRole(u) == IF u = 2 THEN "admin" ELSE "user"
SeedUser(u) ==
  preSave([id |-> u,
           doc |-> [NoDoc EXCEPT !.email = SeedEmail(u),
                                 !.password = SeedPassword(u),
                                 !.confirmPassword = SeedPassword(u),
                                 !.role = SeedRole(u)],
           modified |-> {"email", "password", "confirmPassword", "role"}]).doc

\* An expense document: its owner, category and amount (in hundredths).
NoExpense == [user |-> 0, expenseCategory |-> "none", expenseAmount |-> 0]
SeedExpenses ==
  [i \in 1..Cardinality(SeedIds) |->
     [user |-> i, expenseCategory |-> IF i = 2 THEN "Transport" ELSE "Food",
      expenseAmount |-> IF i = 1 THEN 8575 ELSE IF i = 2 THEN 3580 ELSE 2295]]

\* The script run against the fresh database, before any request.
seedDataBase ==
  /\ Quiet
  /\ nextId = 1
  /\ \A s \in Slots : req[s].pc = "idle"
  /\ users' = [u \in UserIds |-> IF u \in SeedIds THEN SeedUser(u) ELSE NoDoc]
  /\ present' = SeedIds
  /\ nextId' = Cardinality(SeedIds) + 1
  /\ expenses' = SeedExpenses
  /\ UNCHANGED <<now, rawIssued, sessions, req, last, consumed, lastSaved,
                 console, limiter, window>>

\* -------------------------------------------------------------- createUser
\* POST /api/v1/user: User.create with the body's email as given; the
\* document User.create returns is the response's data.
createUser(s, email, pair) ==
  /\ Free(s)
  /\ nextId <= MaxUsers
  /\ LET run == [NoRun EXCEPT !.op = "createUser", !.pair = pair]
         created == preSave([id |-> nextId,
                             doc |-> [NoDoc EXCEPT !.email = email,
                                                   !.password = pair[1],
                                                   !.confirmPassword = pair[2]],
                             modified |-> {"email", "password", "confirmPassword"}])
     IN  IF email = Undefined \/ ~ValidPasswordPair(pair[1], pair[2])
           THEN /\ last' = catchAsync(run, ValidationError)
                /\ UNCHANGED <<users, present, nextId>>
         ELSE IF UniqueIndexHit(email)
           THEN /\ last' = catchAsync(run, DuplicateKey)
                /\ UNCHANGED <<users, present, nextId>>
         ELSE /\ users' = [users EXCEPT ![nextId] = created.doc]
              /\ present' = present \cup {nextId}
              /\ nextId' = nextId + 1
              /\ last' = [run EXCEPT
                            !.uid = nextId,
                            !.resp = [Json(201, "User created successfully", NoToken)
                                        EXCEPT !.user = created.doc]]
  /\ UNCHANGED <<now, rawIssued, sessions, req, consumed, lastSaved, expenses,
                 console, limiter, window>>

\* ------------------------------------------------------------- getAllUsers
\* User.find(): the stored documents in _id order, without the paths
\* declared select: false.
FindUsers ==
  [i \in 1..Cardinality(present) |->
     Selected(users[CHOOSE u \in present :
                      Cardinality({v \in present : v <= u}) = i])]

\* GET /api/v1/user, mounted without a middleware before it.  The value
\* handed to valdidateResourceExists is the boolean users.length > 0, which
\* is never missing.
getAllUsers(s) ==
  /\ Free(s)
  /\ LET run == valdidateResourceExists([NoRun EXCEPT !.op = "getAllUsers"],
                                        FALSE, "user", "Invalid data")
     IN  last' = [run EXCEPT
                    !.resp = [Json(200, "Users retrieved successfully", NoToken)
                                EXCEPT !.users = FindUsers]]
  /\ UNCHANGED <<now, users, present, nextId, rawIssued, sessions, req,
                 consumed, lastSaved, expenses, console, limiter, window>>

\* -------------------------------------------------------------- restrictTo
\* Variant: the role test is dropped.
restrictTo_anyRole(run, roles, reqUser) ==
  IF reqUser = 0
    THEN Fail(run, Thrown("TypeError", "Cannot read properties of undefined"))
    ELSE [run EXCEPT !.permitted = TRUE]

\* restrictTo(...roles): reqUser is the _id of req.user, 0 when no middleware
\* has set req.user.  The read of req.user.role then throws, and express
\* hands the error to the error handler.
restrictTo(run, roles, reqUser) ==
  IF reqUser = 0
    THEN Fail(run, Thrown("TypeError", "Cannot read properties of undefined"))
  ELSE IF users[reqUser].role \notin roles
    THEN Fail(run, AppError("You do not have permission to perform this action", 403))
  ELSE [run EXCEPT !.permitted = TRUE]

\* DELETE /api/v1/expense/:id: protect, restrictTo('admin'), deleteExpenses.
deleteExpensesRoute(s, scheme, tok, id) ==
  /\ Free(s)
  /\ LET run == [protectRun(scheme, tok) EXCEPT !.op = "deleteExpenses"]
         run2 == IF run.called THEN restrictTo(run, {"admin"}, run.uid) ELSE run
     IN  IF run2.permitted
           THEN /\ expenses' = [i \in DOMAIN expenses |->
                                  IF i = id THEN NoExpense ELSE expenses[i]]
                /\ last' = Respond(run2, 204, "", NoToken)
           ELSE /\ last' = run2
                /\ UNCHANGED expenses
  /\ UNCHANGED <<now, users, present, nextId, rawIssued, sessions, req,
                 consumed, lastSaved, console, limiter, window>>

\* GET, DELETE and PATCH /api/v1/user/:id: restrictTo('admin') and then the
\* handler; no middleware before restrictTo sets req.user.
userByIdRoute(s, method, id) ==
  /\ Free(s)
  /\ LET run == restrictTo([NoRun EXCEPT !.op = "userById"], {"admin"}, 0)
     IN  IF run.permitted /\ method = "DELETE"
           THEN /\ present' = present \ {id}
                /\ users' = [users EXCEPT ![id] = NoDoc]
                /\ last' = Respond(run, 204, "", NoToken)
         ELSE IF run.permitted /\ method = "GET"
           THEN /\ last' = Respond(run, 200, "User retrieved successfully", NoToken)
                /\ UNCHANGED <<users, present>>
         ELSE /\ last' = run
              /\ UNCHANGED <<users, present>>
  /\ UNCHANGED <<now, nextId, rawIssued, sessions, req, consumed, lastSaved,
                 expenses, console, limiter, window>>

\* ---------------------------------------------------------------- expenses
\* enum of expenseCategory
Categories ==
  {"Food", "Transport", "Entertainment", "Utilities", "HealthCare", "Others"}

\* A body without expenseAmount.
NoAmount == -1

\* The bodies of the expense requests: a category of the enum, one outside
\* it or none; an amount or none.
BodyCategories == {"Food", "Transport", "Rent", Undefined}
BodyAmounts == (1..MaxAmount) \cup {NoAmount}

\* Expense.findById: the stored document, NoExpense for none.
FindExpenseById(id) ==
  IF id \in DOMAIN expenses THEN expenses[id] ELSE NoExpense

\* The schema's validators: expenseCategory is required and of the enum,
\* expenseAmount is required and at least 0.
ValidExpense(category, amount) == category \in Categories /\ amount >= 0

\* Expense.create rejects with "Expense validation failed: ...",
\* findByIdAndUpdate with runValidators with "Validation failed: ...".
ExpenseValidationError == Thrown("ValidationError", "Expense validation failed")
UpdateValidationError == Thrown("ValidationError", "Validation failed")

\* Variant: the user condition is dropped, every stored expense matches.
UserExpenses_all(uid) == SelectSeq(expenses, LAMBDA e : e # NoExpense)

\* find({ user: req.user._id }) and $match: { user: req.user._id }: the
\* stored expenses of the user, in _id order.
UserExpenses(uid) == SelectSeq(expenses, LAMBDA e : e.user = uid)

\* ApiFeatures(query, req.query).filter().sort().fields().pagination(): the
\* query is narrowed to some of the documents it matched; keep is the set of
\* positions the request's query string leaves.
RECURSIVE ApiFeatures(_, _)
ApiFeatures(matched, keep) ==
  IF matched = <<>> THEN <<>>
  ELSE LET rest == ApiFeatures(Tail(matched), {k - 1 : k \in keep \ {1}})
       IN  IF 1 \in keep THEN <<Head(matched)>> \o rest ELSE rest

\* $sum: '$expenseAmount'
RECURSIVE SumAmount(_)
SumAmount(docs) ==
  IF docs = <<>> THEN 0 ELSE Head(docs).expenseAmount + SumAmount(Tail(docs))

\* One group of $group: { _id: '$expenseCategory', totalAmount, totalExpenses,
\* expenses }.
Group(docs, category) ==
  LET inGroup == SelectSeq(docs, LAMBDA e : e.expenseCategory = category)
  IN  [id |-> category, totalAmount |-> SumAmount(inGroup),
       totalExpenses |-> Len(inGroup), expenses |-> inGroup]

\* Expense.aggregate of sortUserExpenses: one group for each category that
\* a matched document has.
Aggregate(uid) ==
  LET docs == UserExpenses(uid)
  IN  {Group(docs, c) : c \in {docs[i].expenseCategory : i \in DOMAIN docs}}

\* POST /api/v1/expense: protect, createExpense.  userId is the userId of the
\* body, which the handler reads and does not use.
createExpense(s, scheme, tok, category, amount, userId) ==
  /\ Free(s)
  /\ Len(expenses) < MaxExpenses
  /\ LET run == [protectRun(scheme, tok) EXCEPT !.op = "createExpense",
                                                !.userId = userId]
         expense == [user |-> run.uid, expenseCategory |-> category,
                     expenseAmount |-> amount]
     IN  IF ~run.called
           THEN /\ last' = run
                /\ UNCHANGED expenses
         ELSE IF ~ValidExpense(category, amount)
           THEN /\ last' = catchAsync(run, ExpenseValidationError)
                /\ UNCHANGED expenses
         ELSE /\ expenses' = Append(expenses, expense)
              /\ last' = [valdidateResourceExists(run, FALSE, "expense", "Invalid data")
                            EXCEPT !.exp = Len(expenses) + 1,
                                   !.resp = [Json(201, "Expense created successfully", NoToken)
                                               EXCEPT !.expenses = <<expense>>]]
  /\ UNCHANGED <<now, users, present, nextId, rawIssued, sessions, req,
                 consumed, lastSaved, console, limiter, window>>

\* GET /api/v1/expense/:id: protect, getExpense.
getExpense(s, scheme, tok, id) ==
  /\ Free(s)
  /\ LET run == [protectRun(scheme, tok) EXCEPT !.op = "getExpense", !.exp = id]
         expense == FindExpenseById(id)
     IN  IF ~run.called
           THEN last' = run
         ELSE IF expense = NoExpense
           THEN last' = Fail(run, AppError("Expense not found!", 404))
         ELSE last' = [run EXCEPT
                         !.resp = [Json(200, "Expense retrieved successfully", NoToken)
                                     EXCEPT !.expenses = <<expense>>]]
  /\ UNCHANGED <<now, users, present, nextId, rawIssued, sessions, req,
                 consumed, lastSaved, expenses, console, limiter, window>>

\* PATCH /api/v1/expense/:id: protect, updateExpense.  A field the body does
\* not have keeps the current value; user is set to the requester.
updateExpense(s, scheme, tok, id, category, amount) ==
  /\ Free(s)
  /\ LET run == [protectRun(scheme, tok) EXCEPT !.op = "updateExpense", !.exp = id]
         currentExpense == FindExpenseById(id)
         expenseCategory == IF category = Undefined
                              THEN currentExpense.expenseCategory ELSE category
         expenseAmount == IF amount = NoAmount
                            THEN currentExpense.expenseAmount ELSE amount
         updatedExpense == [user |-> run.uid, expenseCategory |-> expenseCategory,
                            expenseAmount |-> expenseAmount]
     IN  IF ~run.called
           THEN /\ last' = run
                /\ UNCHANGED expenses
         ELSE IF currentExpense = NoExpense
           THEN /\ last' = Fail(run, AppError("Expense not found or not authorized!", 404))
                /\ UNCHANGED expenses
         ELSE IF ~ValidExpense(expenseCategory, expenseAmount)
           THEN /\ last' = catchAsync(run, UpdateValidationError)
                /\ UNCHANGED expenses
         ELSE /\ expenses' = [expenses EXCEPT ![id] = updatedExpense]
              /\ last' = [run EXCEPT
                            !.resp = [Json(200, "Expense updated successfully", NoToken)
                                        EXCEPT !.expenses = <<updatedExpense>>]]
  /\ UNCHANGED <<now, users, present, nextId, rawIssued, sessions, req,
                 consumed, lastSaved, console, limiter, window>>

\* GET /api/v1/expense: protect, getAllExpense.
getAllExpense(s, scheme, tok) ==
  /\ Free(s)
  /\ LET run == [protectRun(scheme, tok) EXCEPT !.op = "getAllExpense"]
         matched == UserExpenses(run.uid)
     IN  IF ~run.called
           THEN last' = run
         ELSE \E keep \in SUBSET (1..Len(matched)) :
                LET userExpenses == ApiFeatures(matched, keep)
                IN  IF Len(userExpenses) < 1
                      THEN last' = Fail(run, AppError("No expenses found for the user!", 404))
                      ELSE last' = [run EXCEPT
                                      !.resp = [Json(200, "Expenses retrieved successfully",
                                                     NoToken)
                                                  EXCEPT !.expenses = userExpenses]]
  /\ UNCHANGED <<now, users, present, nextId, rawIssued, sessions, req,
                 consumed, lastSaved, expenses, console, limiter, window>>

\* GET /api/v1/expense/categories: protect, sortUserExpenses.
sortUserExpenses(s, scheme, tok) ==
  /\ Free(s)
  /\ LET run == [protectRun(scheme, tok) EXCEPT !.op = "sortUserExpenses"]
         sortedExpenses == Aggregate(run.uid)
     IN  IF ~run.called
           THEN last' = run
         ELSE IF sortedExpenses = {}
           THEN last' = Fail(run, AppError("No expenses found for the user!", 404))
         ELSE last' = [run EXCEPT
                         !.resp = [Json(200, "Expenses sorted by category successfully",
                                        NoToken)
                                     EXCEPT !.groups = sortedExpenses]]
  /\ UNCHANGED <<now, users, present, nextId, rawIssued, sessions, req,
                 consumed, lastSaved, expenses, console, limiter, window>>

\* ------------------------------------------------------------- authLimiter
\* The time at which a count that starts at t starts anew.
resetTimeOf(t) == t + windowMs

\* The store's increment: a count whose reset time has come starts anew,
\* then the hit is counted.
Increment(client, t) ==
  LET current == IF client.resetTime <= t
                   THEN [totalHits |-> 0, resetTime |-> resetTimeOf(t)]
                   ELSE client
  IN  [current EXCEPT !.totalHits = @ + 1]

\* A request of client ip to /api/v1/user, /api/v1/expense or /api/v1/auth:
\* the one limiter that the three routers are mounted behind counts it and
\* either answers 429 or calls next().
authLimiter(ip) ==
  /\ Quiet
  /\ limiter[ip].totalHits < MaxHits
  /\ window[ip].n < MaxHits
  /\ LET client == Increment(limiter[ip], now)
         run == [NoRun EXCEPT !.op = "authLimiter", !.ip = ip]
     IN  /\ limiter' = [limiter EXCEPT ![ip] = client]
         /\ last' = IF client.totalHits > max
                      THEN Respond(run, 429,
                                   "TOo many Requests from this IP, please try again later.",
                                   NoToken)
                      ELSE [run EXCEPT !.called = TRUE]
  /\ window' = [window EXCEPT ![ip] =
                  IF @.n = 0 \/ now >= @.first + 15 * 60 * 1000
                    THEN [first |-> now, n |-> 1]
                    ELSE [@ EXCEPT !.n = @ + 1]]
  /\ UNCHANGED <<now, users, present, nextId, rawIssued, sessions, req,
                 consumed, lastSaved, expenses, console>>

\* Time passes between the requests that the limiter sees.
Elapse ==
  /\ Quiet
  /\ (now - Epoch) \div LimiterStep < MaxSteps
  /\ now' = now + LimiterStep
  /\ UNCHANGED <<users, present, nextId, rawIssued, sessions, req, last,
                 consumed, lastSaved, expenses, console, limiter, window>>

\* The outcome of the run that has just ended leaves the server.
Deliver ==
  /\ ~Quiet
  /\ last' = NoRun
  /\ UNCHANGED <<now, users, present, nextId, rawIssued, sessions, req,
                 consumed, lastSaved>>
  /\ UNCHANGED <<expenses, console, limiter, window>>

Next ==
  \/ \E d \in TickSizes : Tick(d)
  \/ \E s \in 1..MaxInFlight, e \in Emails \cup {Undefined}, p \in SignupPairs :
       signup(s, e, p)
  \/ \E s \in 1..MaxInFlight, e \in {"a@x.io", "b@x.io", Undefined},
        p \in {"password1", "password2", Undefined} :
       login(s, e, p)
  \/ \E s \in 1..MaxInFlight : loginSign(s)
  \/ \E s \in 1..MaxInFlight, h \in Headers, route \in {"expense", "emailVerify"} :
       protect(s, h[1], h[2], route)
  \/ \E s \in 1..MaxInFlight : emailVerifySave(s)
  \/ \E s \in 1..MaxInFlight, delivered \in BOOLEAN : emailVerifyMail(s, delivered)
  \/ \E s \in 1..MaxInFlight, raw \in 0..Len(rawIssued) : emailTokenVerify(s, raw)
  \/ \E s \in 1..MaxInFlight, e \in Emails \cup {Undefined} : forgotPassword(s, e)
  \/ \E s \in 1..MaxInFlight : forgotPasswordSave(s)
  \/ \E s \in 1..MaxInFlight, delivered \in BOOLEAN : forgotPasswordMail(s, delivered)
  \/ \E s \in 1..MaxInFlight, raw \in 0..Len(rawIssued), p \in ResetPairs :
       resetPassword(s, raw, p)
  \/ \E s \in 1..MaxInFlight : resetPasswordSave(s)
  \/ \E s \in 1..MaxInFlight : logout(s)
  \/ \E u \in UserIds : deleteUser(u)
  \/ Deliver

Spec == Init /\ [][Next]_vars

\* The user and expense routers on a database the seed script may have
\* filled: logins, the user routes and the admin-only expense route.
RouteNext ==
  \/ seedDataBase
  \/ \E d \in TickSizes : Tick(d)
  \/ \E s \in 1..MaxInFlight, e \in Emails \cup {Undefined}, p \in SignupPairs :
       createUser(s, e, p)
  \/ \E s \in 1..MaxInFlight, u \in SeedIds, v \in SeedIds :
       login(s, SeedEmail(u), SeedPassword(v))
  \/ \E s \in 1..MaxInFlight, e \in Emails, p \in {"password1"} : login(s, e, p)
  \/ \E s \in 1..MaxInFlight : loginSign(s)
  \/ \E s \in 1..MaxInFlight : getAllUsers(s)
  \/ \E s \in 1..MaxInFlight, h \in Headers, id \in 1..Len(expenses) :
       deleteExpensesRoute(s, h[1], h[2], id)
  \/ \E s \in 1..MaxInFlight, method \in {"GET", "DELETE", "PATCH"}, id \in UserIds :
       userByIdRoute(s, method, id)
  \/ Deliver

RouteSpec == Init /\ [][RouteNext]_vars

\* The expense router for the users of the seed script, logged in or not.
ExpenseNext ==
  \/ seedDataBase
  \/ \E s \in 1..MaxInFlight, u \in SeedIds : login(s, SeedEmail(u), SeedPassword(u))
  \/ \E s \in 1..MaxInFlight : loginSign(s)
  \/ \E s \in 1..MaxInFlight, h \in Headers, c \in BodyCategories,
        a \in BodyAmounts, userId \in UserIds \cup {0} :
       createExpense(s, h[1], h[2], c, a, userId)
  \/ \E s \in 1..MaxInFlight, h \in Headers, id \in 1..MaxExpenses :
       getExpense(s, h[1], h[2], id)
  \/ \E s \in 1..MaxInFlight, h \in Headers, id \in 1..MaxExpenses,
        c \in BodyCategories, a \in BodyAmounts :
       updateExpense(s, h[1], h[2], id, c, a)
  \/ \E s \in 1..MaxInFlight, h \in Headers : getAllExpense(s, h[1], h[2])
  \/ \E s \in 1..MaxInFlight, h \in Headers : sortUserExpenses(s, h[1], h[2])
  \/ \E s \in 1..MaxInFlight, h \in Headers, id \in 1..MaxExpenses :
       deleteExpensesRoute(s, h[1], h[2], id)
  \/ Deliver

ExpenseSpec == Init /\ [][ExpenseNext]_vars

\* The request limiter in front of the three routers.
LimiterNext ==
  \/ \E ip \in IPs : authLimiter(ip)
  \/ Elapse
  \/ Deliver

LimiterSpec == Init /\ [][LimiterNext]_vars

\* Password resets with two requests in flight: the forgot-password and
\* reset-password handlers take either slot, so that their store accesses
\* interleave in every order.
RaceNext ==
  \/ \E d \in TickSizes : Tick(d)
  \/ \E s \in Slots, e \in {"a@x.io"}, p \in {<<"password1", "password1">>} :
       signup(s, e, p)
  \/ \E s \in Slots, e \in {"a@x.io"} : forgotPassword(s, e)
  \/ \E s \in Slots : forgotPasswordSave(s)
  \/ \E s \in Slots, delivered \in BOOLEAN : forgotPasswordMail(s, delivered)
  \/ \E s \in Slots, raw \in 0..Len(rawIssued), p \in ResetPairs :
       resetPassword(s, raw, p)
  \/ \E s \in Slots : resetPasswordSave(s)
  \/ Deliver

RaceSpec == Init /\ [][RaceNext]_vars

\* ================================================================ properties
\* A finished run stays in last until Deliver; no other step is taken in
\* between, so in a state with last # NoRun the store is as that run left it.

Rejected(run, status) ==
  /\ run.nexts # <<>>
  /\ run.nexts[1].statusCode = status
  /\ run.resp = NoResp
  /\ \A env \in ServingModes : Answer(run, env).status = status

ProtectRan == last.op = "protect" /\ last.scheme = "Bearer" /\ last.tok \in sessions

\* C1: once a reset-password with raw token T has replaced the password, no
\* later reset-password presenting T gets past the token lookup: none is
\* waiting to save a new password with a token that is already consumed.
C1_SingleUse ==
  \A s \in Slots : req[s].pc = "rp_save" => req[s].raw \notin consumed

\* C2: a session token issued to a user before the time recorded by a
\* completed reset-password of that user, presented unexpired, is rejected by
\* protect with 401 and the downstream handler is not invoked.
C2_StaleRejected ==
  ( /\ ProtectRan
    /\ jwtVerify(last.tok, now) = "ok"
    /\ last.tok.id \in present
    /\ users[last.tok.id].passwordChangedAt # NoDate
    /\ last.tok.at < users[last.tok.id].passwordChangedAt )
  => (~last.called /\ Rejected(last, 401))

C2_Witness ==
  /\ ProtectRan
  /\ jwtVerify(last.tok, now) = "ok"
  /\ last.tok.id \in present
  /\ last.tok.at < users[last.tok.id].passwordChangedAt
  /\ ~last.called
  /\ Rejected(last, 401)

\* C3: when the delivery of the email fails in forgot-password or in
\* send-email-verification-token, the request ends with a 500 response, the
\* token hash and expiry it wrote are cleared again, and its raw token is
\* accepted by no later reset-password.
C3_FailedMailClears ==
  (last.mail = "failed" /\ last.uid \in present)
  => /\ \A env \in ServingModes : Answer(last, env).status = 500
     /\ users[last.uid].passwordResetToken = NoHash
     /\ users[last.uid].passwordResetExpires = NoDate
     /\ ResetLookup(sha256(last.raw), now) = {}

\* C4: a reset-password whose token was accepted and whose new password is
\* valid and equals its confirmation ends with a 200 response that carries a
\* new session token of that user.
C4_ResetResponds ==
  ( /\ last.op = "resetPassword"
    /\ last.uid \in present
    /\ ValidPasswordPair(last.pair[1], last.pair[2]) )
  => \A env \in ServingModes :
        /\ Answer(last, env).status = 200
        /\ Answer(last, env).token.id = last.uid
        /\ Answer(last, env).token.sig = "secret"

\* C5: a session token issued after the user's most recent password change
\* (a later millisecond of the same clock second included), presented before
\* its expiry for a user that still exists, passes protect and reaches the
\* downstream handler.
C5_FreshAccepted ==
  ( /\ ProtectRan
    /\ jwtVerify(last.tok, now) = "ok"
    /\ last.tok.id \in present
    /\ users[last.tok.id].passwordChangedAt < last.tok.at )
  => last.called

\* C6: a reset-password presenting a raw token at or after its issuance plus
\* ten minutes is rejected with 400 and leaves the store as it was; presented
\* strictly before that, not consumed and not superseded, for a user that
\* still exists, the token is accepted.
C6_Expiry ==
  [][\A s \in Slots, raw \in DOMAIN rawIssued, p \in ResetPairs :
        resetPassword(s, raw, p) =>
          LET u == rawIssued[raw].uid
              expiry == rawIssued[raw].t + ResetTokenTTL
          IN  /\ now >= expiry =>
                   /\ Rejected(last', 400)
                   /\ users' = users
                   /\ req' = req
              /\ ( /\ now < expiry
                   /\ raw \notin consumed
                   /\ lastSaved[u] = raw
                   /\ u \in present ) =>
                   /\ req'[s].pc = "rp_save"
                   /\ req'[s].mem.id = u
                   /\ last' = NoRun]_vars

C6_Witness ==
  /\ last.op = "resetPassword"
  /\ last.raw \in DOMAIN rawIssued
  /\ rawIssued[last.raw].uid \in present
  /\ lastSaved[rawIssued[last.raw].uid] = last.raw
  /\ last.raw \notin consumed
  /\ now = rawIssued[last.raw].t + ResetTokenTTL
  /\ Rejected(last, 400)

\* C7: a user has at most one usable reset token: once a later request has
\* persisted its token for the user, a reset-password presenting the earlier
\* raw token is rejected with 400 and changes nothing, and a token that is
\* accepted is the one persisted last for its user.
C7_OneUsable ==
  [][\A s \in Slots, raw \in DOMAIN rawIssued, p \in ResetPairs :
        resetPassword(s, raw, p) =>
          LET u == rawIssued[raw].uid
          IN  /\ lastSaved[u] # raw =>
                   /\ Rejected(last', 400)
                   /\ users' = users
                   /\ req' = req
              /\ req'[s].pc = "rp_save" =>
                   /\ req'[s].mem.id = u
                   /\ lastSaved[u] = raw]_vars

C7_Witness ==
  /\ last.op = "resetPassword"
  /\ last.raw = 1
  /\ Len(rawIssued) = 2
  /\ rawIssued[1].flow = "reset"
  /\ rawIssued[2].flow = "reset"
  /\ rawIssued[1].uid = rawIssued[2].uid
  /\ rawIssued[1].uid \in present
  /\ lastSaved[rawIssued[1].uid] = 2
  /\ now < rawIssued[1].t + ResetTokenTTL
  /\ Rejected(last, 400)

\* C8: a request to a protected route with no Authorization header, or with
\* one that does not start with Bearer, is rejected by protect with 401; no
\* token is verified, no user is looked up and the downstream handler is not
\* invoked.
C8_NoBearer ==
  (last.op = "protect" /\ last.scheme \in {"none", "Basic"})
  => /\ last.nexts =
          <<AppError("You are not logged in. Please log in to get access", 401)>>
     /\ Rejected(last, 401)
     /\ ~last.verified
     /\ ~last.looked
     /\ ~last.called

C8_Witness ==
  /\ last.op = "protect"
  /\ last.scheme = "Basic"
  /\ Rejected(last, 401)
  /\ ~last.verified

\* C9: a request to a protected route whose bearer token has a bad signature
\* or an elapsed expiry is answered with 401 under development and under
\* production, and the downstream handler is not invoked.
C9_BadTokenIs401 ==
  ( /\ last.op = "protect"
    /\ last.scheme = "Bearer"
    /\ last.tok \in sessions \cup {Forged}
    /\ jwtVerify(last.tok, now) # "ok" )
  => /\ ~last.called
     /\ \A env \in ServingModes : Answer(last, env).status = 401

\* C10: a request to a protected route with a validly signed, unexpired token
\* whose user has been deleted is answered with 401 and the downstream
\* handler is not invoked.
C10_DeletedUserIs401 ==
  ( /\ ProtectRan
    /\ jwtVerify(last.tok, now) = "ok"
    /\ last.tok.id \notin present )
  => /\ ~last.called
     /\ \A env \in ServingModes : Answer(last, env).status = 401

\* C11: protect calls the downstream handler exactly when the header is a
\* Bearer header whose token is signed with the server secret, is unexpired,
\* names a stored user, and that user's password was not changed after the
\* token's issued-at; req.user is then the stored user the token names.
C11_ProtectPasses ==
  last.op = "protect" =>
    /\ last.called <=>
         /\ last.scheme = "Bearer"
         /\ last.tok.sig = "secret"
         /\ now \div 1000 < last.tok.exp
         /\ last.tok.id \in present
         /\ \/ users[last.tok.id].passwordChangedAt = NoDate
            \/ users[last.tok.id].passwordChangedAt <= last.tok.iat * 1000
    /\ last.called => last.uid = last.tok.id

C11_Witness ==
  /\ last.op = "protect"
  /\ last.called
  /\ last.uid \in present
  /\ users[last.uid].passwordChangedAt # NoDate

\* C12: on DELETE /expense/:id, once protect has passed, restrictTo('admin')
\* calls the next handler exactly when the authorized user's role is admin;
\* a user of role 'user' is rejected with 403 and the expense collection is
\* left as it was; an admin's request deletes the expense and is answered 204.
C12_RestrictTo ==
  [][\A s \in Slots, h \in Headers, id \in DOMAIN expenses :
        (deleteExpensesRoute(s, h[1], h[2], id) /\ protectRun(h[1], h[2]).called)
        => LET user == users[protectRun(h[1], h[2]).uid]
           IN  /\ last'.permitted <=> user.role \in {"admin"}
               /\ ~last'.permitted => Rejected(last', 403)
               /\ user.role = "user" =>
                    /\ last'.nexts =
                         <<AppError("You do not have permission to perform this action", 403)>>
                    /\ expenses' = expenses
               /\ user.role = "admin" =>
                    /\ last'.nexts = <<>>
                    /\ last'.resp.status = 204
                    /\ expenses'[id] = NoExpense
                    /\ \A i \in DOMAIN expenses \ {id} : expenses'[i] = expenses[i]]_vars

\* A user of role 'user' has just been refused, after an admin deleted an
\* expense.
C12_Witness ==
  /\ last.op = "deleteExpenses"
  /\ last.called
  /\ last.uid \in present
  /\ users[last.uid].role = "user"
  /\ Rejected(last, 403)
  /\ \E i \in DOMAIN expenses : expenses[i] = NoExpense

\* restrictTo has run in the request that has just ended.
RestrictToRan ==
  \/ last.op = "userById"
  \/ last.op = "deleteExpenses" /\ last.called

\* C13: whenever restrictTo runs, protect has run before it in the same chain
\* and set req.user to a stored user, and restrictTo either passes or rejects
\* with 403.
C13_ProtectBeforeRestrictTo ==
  RestrictToRan =>
    /\ last.verified
    /\ last.uid \in present
    /\ last.permitted \/ Rejected(last, 403)

\* C17: the email of every stored user is in lower case.
C17_LowerCaseEmails ==
  \A u \in present : users[u].email = toLowerCase(users[u].email)

C15_SignupRejects400 ==
  (last.op = "signup" /\ last.nexts # <<>>)
  => \A env \in ServingModes : Answer(last, env).status = 400

Plaintexts == {pair[i] : pair \in SignupPairs \cup ResetPairs, i \in 1..2}

C19_PasswordKept ==
  [][\A s \in Slots :
        ( \/ forgotPasswordSave(s)
          \/ emailVerifySave(s)
          \/ \E delivered \in BOOLEAN :
                forgotPasswordMail(s, delivered) \/ emailVerifyMail(s, delivered)
          \/ \E raw \in 0..Len(rawIssued) : emailTokenVerify(s, raw) )
        => \A u \in present :
              /\ users'[u].password = users[u].password
              /\ \A p \in Plaintexts :
                    correctPassword(p, users'[u].password)
                      <=> correctPassword(p, users[u].password)]_vars

\* forgot-password has stored its token for a user whose password a login
\* would accept.
C19_Witness ==
  /\ \E s \in Slots : req[s].pc = "fp_mail" /\ req[s].mem.id \in present
                      /\ lastSaved[req[s].mem.id] = req[s].raw
                      /\ users[req[s].mem.id].passwordResetToken = sha256(req[s].raw)
                      /\ correctPassword("password1", users[req[s].mem.id].password)

\* C20: the store holds a reset token only as its SHA-256 digest; the raw
\* token goes to the mailer only, in the mail of the request that made it, for
\* the user it was made for; no answer of forgot-password carries a token.
C20_OnlyHashStored ==
  /\ \A u \in present :
        users[u].passwordResetToken
          \in {NoHash} \cup {sha256(r) : r \in DOMAIN rawIssued}
  /\ \A s \in Slots :
        req[s].pc \in {"fp_save", "fp_mail"} =>
          req[s].mem.doc.passwordResetToken = sha256(req[s].raw)
  /\ last.op = "forgotPassword" =>
        /\ last.resp \in {NoResp, Json(200, "Token sent to email!", NoToken)}
        /\ \A env \in Modes : Answer(last, env).token = NoToken
        /\ last.mail # "none" =>
              /\ last.raw \in DOMAIN rawIssued
              /\ rawIssued[last.raw].uid = last.uid
              /\ rawIssued[last.raw].flow = "reset"

\* forgot-password has stored the digest, mailed the raw token and answered.
C20_Witness ==
  /\ last.op = "forgotPassword"
  /\ last.mail = "sent"
  /\ last.uid \in present
  /\ users[last.uid].passwordResetToken = sha256(last.raw)
  /\ last.resp = Json(200, "Token sent to email!", NoToken)

\* C21: the two token flows are apart: no reset-password replaces a password
\* with a raw token that send-email-verification-token generated, and the
\* stored reset hash of a user is never the digest of a verification token.
C21_FlowsApart ==
  /\ \A r \in consumed : rawIssued[r].flow = "reset"
  /\ \A u \in present, r \in DOMAIN rawIssued :
        users[u].passwordResetToken = sha256(r) => rawIssued[r].flow = "reset"

\* C22: a verify-email-token request that presents the raw token of the
\* user's latest send-email-verification-token, less than ten minutes after
\* it was made, succeeds for that user.
C22_VerifySucceeds ==
  ( /\ last.op = "emailTokenVerify"
    /\ last.raw \in DOMAIN rawIssued
    /\ rawIssued[last.raw].flow = "verify"
    /\ rawIssued[last.raw].uid \in present
    /\ lastSaved[rawIssued[last.raw].uid] = last.raw
    /\ now < rawIssued[last.raw].t + ResetTokenTTL )
  => /\ last.resp.status = 200
     /\ last.uid = rawIssued[last.raw].uid

\* C23: with forgot-password requests in flight together, the stored reset
\* hash and expiry of a user are the pair of the request that saved last; a
\* reset-password presenting a raw token of the user gets past the lookup
\* exactly when it is that request's token, unexpired, and is otherwise
\* rejected with 400.
C23_LastWriterWins ==
  [][/\ \A u \in present' :
          lastSaved'[u] # 0 =>
            /\ users'[u].passwordResetToken = sha256(lastSaved'[u])
            /\ users'[u].passwordResetExpires
                 = rawIssued'[lastSaved'[u]].t + ResetTokenTTL
     /\ \A s \in Slots, raw \in DOMAIN rawIssued, p \in ResetPairs :
          (resetPassword(s, raw, p) /\ rawIssued[raw].uid \in present) =>
            IF /\ raw = lastSaved[rawIssued[raw].uid]
               /\ now < rawIssued[raw].t + ResetTokenTTL
              THEN /\ req'[s].pc = "rp_save"
                   /\ req'[s].mem.id = rawIssued[raw].uid
                   /\ last' = NoRun
              ELSE /\ Rejected(last', 400)
                   /\ req' = req]_vars

\* Two forgot-password requests of one user overlapped: the token made first
\* was saved last, has replaced the password, and the token made second,
\* unexpired, has just been rejected.
C23_Witness ==
  /\ Len(rawIssued) = 2
  /\ rawIssued[1].uid = rawIssued[2].uid
  /\ lastSaved[rawIssued[1].uid] = 1
  /\ 1 \in consumed
  /\ last.op = "resetPassword"
  /\ last.raw = 2
  /\ now < rawIssued[2].t + ResetTokenTTL
  /\ Rejected(last, 400)

\* C24: a reset-password presenting a raw token issued for user A is matched
\* against A only, and its save changes A's record only: every other user's
\* document, with its password hash, passwordChangedAt and reset fields,
\* stays as it was.
C24_OnlyOwner ==
  [][/\ \A s \in Slots, raw \in DOMAIN rawIssued, p \in ResetPairs :
          (resetPassword(s, raw, p) /\ req'[s].pc = "rp_save")
          => req'[s].mem.id = rawIssued[raw].uid
     /\ \A s \in Slots :
          resetPasswordSave(s) =>
            /\ req[s].raw \in DOMAIN rawIssued
            /\ req[s].mem.id = rawIssued[req[s].raw].uid
            /\ \A b \in UserIds \ {req[s].mem.id} : users'[b] = users[b]]_vars

\* A reset-password has replaced a user's password while another user held
\* an unexpired reset token of their own.
C24_Witness ==
  /\ last.op = "resetPassword"
  /\ last.raw \in consumed
  /\ last.uid \in present
  /\ users[last.uid].passwordChangedAt # NoDate
  /\ \E b \in present \ {last.uid} :
        /\ users[b].passwordResetToken # NoHash
        /\ users[b].passwordResetExpires > now
        /\ users[b].passwordChangedAt = NoDate

\* C25: no step of signup, login, forgot-password, reset-password,
\* send-email-verification-token, verify-email-token or logout changes the
\* role of a stored user, and a user that signup creates has role 'user'
\* whatever role the body names.
C25_RoleFixed ==
  [][/\ \A u \in present \cap present' : users'[u].role = users[u].role
     /\ \A u \in present' \ present : users'[u].role = "user"]_vars

\* A signup whose body named the role admin has created a user.
C25_Witness ==
  /\ last.op = "signup"
  /\ last.role = "admin"
  /\ last.resp.status = 201
  /\ last.uid \in present
  /\ users[last.uid].role = "user"

\* C26: a forgot-password naming an email that no stored user has is rejected
\* with 404; no token is made, no mail is sent and no request is left waiting
\* on the store or the mailer; every user record stays as it was.
C26_UnknownEmail404 ==
  [][\A s \in Slots, e \in Emails :
        ( /\ forgotPassword(s, e)
          /\ \A u \in present : users[u].email # toLowerCase(e) )
        => /\ last'.nexts = <<AppError("There is no user with that email address.", 404)>>
           /\ Rejected(last', 404)
           /\ last'.mail = "none"
           /\ rawIssued' = rawIssued
           /\ req' = req
           /\ users' = users
           /\ present' = present]_vars

\* A forgot-password for an unknown email has just been rejected, with
\* another user stored.
C26_Witness ==
  /\ last.op = "forgotPassword"
  /\ Rejected(last, 404)
  /\ last.mail = "none"
  /\ present # {}
  /\ \A s \in Slots : req[s].pc = "idle"

\* An error that is no AppError, validation error, duplicate-key error or JWT
\* error.
Unexpected(err) == err.name \in {"TypeError", "ReferenceError", "DocumentNotFoundError"}

\* C27: in production a request that ends in an unexpected error is answered
\* with status 500 and a message that is not the error's own message.
C27_ProdIsGeneric ==
  (last.nexts # <<>> /\ Unexpected(last.nexts[1]) /\ last.resp = NoResp)
  => /\ Answer(last, "production").status = 500
     /\ Answer(last, "production").message # last.nexts[1].message

\* C28: every response that signup or login writes carries the user it is
\* about, without the password hash and without the confirmation.
C28_PayloadStripped ==
  (last.op \in {"signup", "login"} /\ last.resp # NoResp) =>
    /\ last.resp.status \in {200, 201}
    /\ last.resp.user.email # Undefined
    /\ last.resp.user.password = NoHash
    /\ last.resp.user.confirmPassword = Undefined
    /\ last.uid \in present =>
          /\ last.resp.user.email = users[last.uid].email
          /\ last.resp.user.password # users[last.uid].password

\* A login has answered for a user whose password a reset has replaced.
C28_Witness ==
  /\ last.op = "login"
  /\ last.resp.status = 200
  /\ last.uid \in present
  /\ users[last.uid].password = bcryptHash("password2")
  /\ last.resp.user.email = users[last.uid].email

\* C29: no raw reset or verification token is written to the console when
\* NODE_ENV is production.
C29_NoTokenInProdLog ==
  \A line \in console : "production" \notin line.modes

\* C30: the save of a reset-password whose new password is shorter than 8 or
\* longer than 32 characters, or differs from its confirmation, fails and
\* changes nothing: the user collection, and with it every password hash and
\* passwordChangedAt, is as before; each password logs in exactly if it did
\* before; every session token is treated by protect as before; every raw
\* token finds the same user as before.
C30_InvalidResetKeepsAll ==
  [][\A s \in Slots :
        ( /\ resetPasswordSave(s)
          /\ LET pw == req[s].mem.doc.password
                 cpw == req[s].mem.doc.confirmPassword
             IN  Len(pw) < MinLength \/ Len(pw) > MaxLength \/ pw # cpw )
        => /\ last'.nexts = <<ValidationError>>
           /\ last'.resp = NoResp
           /\ users' = users
           /\ present' = present
           /\ consumed' = consumed
           /\ sessions' = sessions
           /\ \A u \in present, p \in Plaintexts :
                correctPassword(p, users'[u].password)
                  = correctPassword(p, users[u].password)
           /\ \A tok \in sessions :
                protectRun("Bearer", tok)' = protectRun("Bearer", tok)
           /\ \A raw \in DOMAIN rawIssued :
                ResetLookup(sha256(raw), now)' = ResetLookup(sha256(raw), now)]_vars

\* A reset-password with a valid token and an invalid new password has just
\* failed: the old password is still the stored one, no change time is
\* recorded and the token still finds the user.
C30_Witness ==
  /\ last.op = "resetPassword"
  /\ last.nexts = <<ValidationError>>
  /\ last.uid \in present
  /\ last.uid \in ResetLookup(sha256(last.raw), now)
  /\ correctPassword("password1", users[last.uid].password)
  /\ users[last.uid].passwordChangedAt = NoDate
  /\ \E tok \in sessions : tok.id = last.uid /\ protectRun("Bearer", tok).called

\* C32: every error that reaches globalErrorHandler gets a response under
\* every value of NODE_ENV: a run that has handed one error to next and has
\* written no response itself is answered in development, in production and
\* with NODE_ENV unset alike.
C32_EveryErrorAnswered ==
  (Len(last.nexts) = 1 /\ last.resp = NoResp) =>
     \A env \in Modes : Answer(last, env) # NoResp

\* C33: within one request a handler or middleware hands over control at
\* most once: after valdidateResourceExists has called next(error) no second
\* error is handed to next and no response is written.
C33_NextAtMostOnce ==
  /\ Len(last.nexts) <= 1
  /\ last.nexts # <<>> => last.resp = NoResp

\* C31: no HTTP response of any endpoint contains a stored password hash:
\* neither the user document nor any document of a user list in the body of
\* a response has a password.
C31_NoHashInResponse ==
  /\ last.resp.user.password = NoHash
  /\ \A i \in DOMAIN last.resp.users : last.resp.users[i].password = NoHash

\* C34: each stored expense's user field is the authenticated user who
\* created it: createExpense stores the requester whatever userId the body
\* names, and no later step changes the user of a stored expense.
C34_OwnerIsCreator ==
  [][/\ (last'.op = "createExpense" /\ last'.resp # NoResp) =>
          expenses'[last'.exp].user = last'.uid
     /\ \A id \in DOMAIN expenses :
          (expenses[id] # NoExpense /\ expenses'[id] # NoExpense) =>
             expenses'[id].user = expenses[id].user]_vars

\* C35: getExpense and updateExpense called by an authenticated user with the
\* id of an expense that a different user owns return no expense data and
\* leave that expense as it was.
C35_OwnExpenseOnly ==
  [][\A id \in DOMAIN expenses :
       (/\ last'.op \in {"getExpense", "updateExpense"}
        /\ last'.called
        /\ last'.exp = id
        /\ expenses[id] # NoExpense
        /\ expenses[id].user # last'.uid) =>
          (last'.resp.expenses = <<>> /\ expenses'[id] = expenses[id])]_vars

\* The sum of expenseAmount over the stored expenses with the given _ids.
RECURSIVE AmountOf(_)
AmountOf(ids) ==
  IF ids = {} THEN 0
  ELSE LET id == CHOOSE i \in ids : TRUE
       IN  expenses[id].expenseAmount + AmountOf(ids \ {id})

C37_TenPerQuarterHour ==
  (last.op = "authLimiter" /\ window[last.ip].n > 10) =>
     (last.resp.status = 429 /\ ~last.called)

====
